---- MODULE Spec2Model ----
(***************************************************************************)
(* Model of the ESP32 edge node firmware (esp32_aqi_node.ino): setup(),    *)
(* the cooperative loop() with its three tasks, readAndSendSensors(),      *)
(* controlFailSafe(), handleScreenUpdate(), webSocketEvent() and           *)
(* calibrateSensors().                                                     *)
(*                                                                         *)
(* millis() and the three task timestamps are unsigned 32-bit values.      *)
(* They are kept at full width as two 16-bit limbs <<hi, lo>>; Add32 and   *)
(* Sub32 are addition and subtraction modulo 2^32.                         *)
(***************************************************************************)
EXTENDS Integers, Sequences, FiniteSets, TLC

\* ------------------------------------------------------------------------
\* Program constants
\* ------------------------------------------------------------------------
MQ9_FAILSAFE_THRESHOLD == 3000
sensorInterval == 5000
screenInterval == 3000
wifiRetryInterval == 15000
maxAttempts == 60
cleanAirFloor == 200
PollDelay == 500
BootDelay == 5000
RadioResetDelay == 1000
SetupTailDelay == 1500
ReconnectDelay == 500
CalibHold == 2000
PwmMax == 255
AdcMax == 4095

\* ------------------------------------------------------------------------
\* Bounds of the model
\* ------------------------------------------------------------------------
\* Tick stops advancing the clock once this many ms have run since loop()
\* was first entered.
MaxElapsed == 15500

\* Text messages the remote side sends during a run.
MaxMsgs == 1

\* fsEvals stops counting here.
EvalCap == 2

\* ------------------------------------------------------------------------
\* unsigned long arithmetic (32 bit), two 16-bit limbs <<hi, lo>>
\* ------------------------------------------------------------------------
Limb == 65536

U32(n) == <<(n \div Limb) % Limb, n % Limb>>

Add32(a, n) ==
  LET lo == a[2] + n
  IN  <<(a[1] + (lo \div Limb)) % Limb, lo % Limb>>

Sub32(a, b) ==
  LET lo == a[2] - b[2]
      hi == a[1] - b[1] - (IF lo < 0 THEN 1 ELSE 0)
  IN  <<(hi + Limb) % Limb, (lo + Limb) % Limb>>

\* a >= n for an unsigned 32-bit a and a constant 0 <= n < 2^16
Geq32(a, n) == a[1] > 0 \/ a[2] >= n

\* the task conditions of loop(): currentMillis - last >= interval
Due(cm, last, interval) == Geq32(Sub32(cm, last), interval)

NoTime == <<-1, -1>>

\* ------------------------------------------------------------------------
\* Arduino helpers
\* ------------------------------------------------------------------------
Max0(x) == IF x > 0 THEN x ELSE 0

constrain_noUpper(x, lo, hi) == IF x < lo THEN lo ELSE x

constrain(x, lo, hi) == IF x < lo THEN lo ELSE IF x > hi THEN hi ELSE x

\* isnan(): a failed DHT read is the value NaN
NaN == -9999

\* ------------------------------------------------------------------------
\* Inputs
\* ------------------------------------------------------------------------
\* One raw sample of the four analog channels (0..4095) and of the DHT11.
Sample(a, b, c, d, t, h) ==
  [mq135 |-> a, mq8 |-> b, mq9 |-> c, dust |-> d, t |-> t, h |-> h]

RawSamples ==
  { Sample(250, 210, 300, 190, 25, 60),
    Sample(100, AdcMax, 3500, 2000, NaN, 60),
    Sample(0, 150, 3100, AdcMax, 25, NaN) }

NoSample == Sample(-1, -1, -1, -1, NaN, NaN)

\* A text payload as deserializeJson() sees it: decodable or not (a truncated
\* text still spells its keys), and the value under "fan_speed" (absent, an
\* integer, or a non-numeric string) and under "command" (absent or a string).
Msg(ok, ft, fv, cmd) == [ok |-> ok, fanType |-> ft, fan |-> fv, cmd |-> cmd]

FanValues == {-20, 0, 128, 255, 256, 400}

Payloads ==
  { Msg(FALSE, "int", 400, "calibrate") }
    \cup { Msg(TRUE, "int", v, "none") : v \in FanValues }
    \cup { Msg(TRUE, "int", 128, "calibrate"), Msg(TRUE, "str", 0, "none") }
    \cup { Msg(TRUE, "none", 0, c) : c \in {"none", "calibrate", "reset"} }

NoMsg == Msg(FALSE, "none", 0, "idle")

\* polls of the startup loop at which the access point may accept the node
AssocPolls == {2, 60}

Frame(a, b, c, d, t, h, f) ==
  [mq135 |-> a, mq8 |-> b, mq9 |-> c, dust |-> d,
   temperature |-> t, humidity |-> h, fan_speed |-> f]

NoFrame == Frame(-1, -1, -1, -1, NaN, NaN, -1)

\* ------------------------------------------------------------------------
\* State
\* ------------------------------------------------------------------------
VARIABLES
  pc,               \* position: "boot", "assoc", "pump", "task1", "task2", "task3", "end"
  attempts,         \* setup(): polls of the association loop
  now,              \* millis()
  t0,               \* millis() when loop() was first entered
  wifi,             \* WiFi.status() == WL_CONNECTED
  wsConnected,      \* webSocket.isConnected()
  currentMillis,    \* loop(): local
  lastSensorRead, lastScreenChange, lastWiFiRetry, currentScreen,
  mq135Val, mq8Val, mq9Val, dustVal, temperature, humidity,
  mq135Offset, mq8Offset, mq9Offset, dustOffset,
  currentFanSpeed,
  fanPwm,           \* duty written to PIN_FAN_PWM
  mlLed,            \* PIN_ML_LED
  lcd,              \* what the LCD shows
  \* observations of the current loop iteration (cleared when loop() returns)
  nMsgs,            \* text messages delivered so far
  rx,               \* last text payload handled by webSocketEvent
  calRaw,           \* raw sample taken by calibrateSensors
  calibAt,          \* millis() read by calibrateSensors
  rawRead,          \* raw sample taken by readAndSendSensors
  frame,            \* telemetry document built by readAndSendSensors
  sent,             \* whether it went out with sendTXT
  blockedMs,        \* ms spent in delay() inside loop()
  retryAt,          \* currentMillis of the reconnect attempt made, if any
  serialLine,       \* what readAndSendSensors printed: "transmitted" or "local"
  fsRan,            \* controlFailSafe() was called
  \* across iterations
  prevRetryAt,      \* currentMillis of the latest attempt of an earlier iteration
  prevReadAt,       \* currentMillis of the latest sensor read of an earlier iteration
  fsEvals,          \* calls of controlFailSafe() since the latest sensor read, capped
  idents,           \* identification messages sent on the present connection
  firstIter,        \* loop() has not yet returned once
  bootLink,         \* the branch setup() took after the association loop
  bootPolls         \* the polls the association loop made

timing == <<lastSensorRead, lastScreenChange, lastWiFiRetry>>
vals == <<mq135Val, mq8Val, mq9Val, dustVal, temperature, humidity>>
offsets == <<mq135Offset, mq8Offset, mq9Offset, dustOffset>>
actuator == <<currentFanSpeed, fanPwm, mlLed>>
display == <<currentScreen, lcd>>
link == <<wifi, wsConnected>>
calObs == <<calRaw, calibAt>>
readObs == <<rawRead, frame, sent, serialLine>>
retryObs == <<blockedMs, retryAt, prevRetryAt>>
fsObs == <<fsRan, fsEvals>>
bootObs == <<firstIter, bootLink, bootPolls>>
hist == <<fsObs, bootObs, idents, prevReadAt>>

vars == <<pc, attempts, now, t0, currentMillis, timing, vals, offsets,
          actuator, display, link, nMsgs, rx, calObs, readObs, retryObs, hist>>

\* ------------------------------------------------------------------------
\* Power-on: the global initialisers
\* ------------------------------------------------------------------------
Init ==
  /\ pc = "boot"
  /\ attempts = 0
  /\ now = U32(0)
  /\ t0 = U32(0)
  /\ wifi = FALSE
  /\ wsConnected = FALSE
  /\ currentMillis = U32(0)
  /\ lastSensorRead = U32(0)
  /\ lastScreenChange = U32(0)
  /\ lastWiFiRetry = U32(0)
  /\ currentScreen = 1
  /\ mq135Val = 0 /\ mq8Val = 0 /\ mq9Val = 0 /\ dustVal = 0
  /\ temperature = 0 /\ humidity = 0
  /\ mq135Offset = 0 /\ mq8Offset = 0 /\ mq9Offset = 0 /\ dustOffset = 0
  /\ currentFanSpeed = 0
  /\ fanPwm = 0
  /\ mlLed = FALSE
  /\ lcd = "off"
  /\ nMsgs = 0
  /\ rx = NoMsg
  /\ calRaw = NoSample
  /\ calibAt = NoTime
  /\ rawRead = NoSample
  /\ frame = NoFrame
  /\ sent = FALSE
  /\ blockedMs = 0
  /\ retryAt = NoTime
  /\ prevRetryAt = NoTime
  /\ serialLine = "none"
  /\ fsRan = FALSE
  /\ prevReadAt = NoTime
  /\ fsEvals = 0
  /\ idents = 0
  /\ firstIter = TRUE
  /\ bootLink = "none"
  /\ bootPolls = 0

\* ------------------------------------------------------------------------
\* setup()
\* ------------------------------------------------------------------------
\* up to WiFi.begin(): the two delays, the pins driven low, the boot banner
SetupBegin ==
  /\ pc = "boot"
  /\ pc' = "assoc"
  /\ now' = Add32(now, BootDelay + RadioResetDelay)
  /\ fanPwm' = 0
  /\ mlLed' = FALSE
  /\ lcd' = "boot"
  /\ wifi' = FALSE
  /\ attempts' = 0
  /\ UNCHANGED <<nMsgs, t0, currentMillis, timing, vals, offsets, currentFanSpeed,
                 currentScreen, wsConnected, rx, calObs, readObs, retryObs,
                 hist>>

Polling_offByOne == ~wifi /\ attempts <= maxAttempts

\* while (WiFi.status() != WL_CONNECTED && attempts < maxAttempts)
Polling == ~wifi /\ attempts < maxAttempts

\* one turn of the association loop
SetupPoll ==
  /\ pc = "assoc"
  /\ Polling
  /\ now' = Add32(now, PollDelay)
  /\ attempts' = attempts + 1
  /\ UNCHANGED <<nMsgs, pc, t0, currentMillis, timing, vals, offsets, actuator,
                 display, link, rx, calObs, readObs, retryObs,
                 hist>>

\* the loop is left: banner, webSocket.beginSSL, delay(1500), lcd.clear()
SetupFinish ==
  /\ pc = "assoc"
  /\ ~Polling
  /\ now' = Add32(now, SetupTailDelay)
  /\ lcd' = "blank"
  /\ attempts' = 0
  /\ pc' = "pump"
  /\ t0' = now'
  /\ bootLink' = (IF wifi THEN "connected" ELSE "offline")
  /\ bootPolls' = attempts
  /\ UNCHANGED <<nMsgs, currentMillis, timing, vals, offsets, actuator,
                 currentScreen, link, rx, calObs, readObs, retryObs,
                 fsObs, firstIter, idents, prevReadAt>>

\* the access point accepts the node while setup() polls
Associate ==
  /\ pc = "assoc"
  /\ ~wifi
  /\ attempts \in AssocPolls
  /\ wifi' = TRUE
  /\ UNCHANGED <<nMsgs, pc, attempts, now, t0, currentMillis, timing, vals, offsets,
                 actuator, display, wsConnected, rx, calObs, readObs, retryObs,
                 hist>>

\* ------------------------------------------------------------------------
\* calibrateSensors()
\* ------------------------------------------------------------------------
CalOffset_nofloor(raw) == raw - cleanAirFloor

\* offset = max(0, analogRead(pin) - cleanAirFloor)
CalOffset(raw) == Max0(raw - cleanAirFloor)

\* the value stored by "lastScreenChange = millis() + 2000"
HoldUntil(t) == Add32(t, CalibHold)

calibrateSensors(s) ==
  /\ lcd' = "calibrating"
  /\ mq135Offset' = CalOffset(s.mq135)
  /\ mq8Offset' = CalOffset(s.mq8)
  /\ mq9Offset' = CalOffset(s.mq9)
  /\ dustOffset' = CalOffset(s.dust)
  /\ lastScreenChange' = HoldUntil(now)
  /\ calRaw' = s
  /\ calibAt' = now

\* ------------------------------------------------------------------------
\* webSocketEvent()
\* ------------------------------------------------------------------------
\* doc["fan_speed"] read into an int: a non-numeric value reads as 0
AsInt(m) == IF m.fanType = "int" THEN m.fan ELSE 0

HasFan_unchecked(m) == m.fanType # "none"

\* past the "if (error) return;" and doc.containsKey("fan_speed")
HasFan(m) == m.ok /\ m.fanType # "none"

IsCalibrate_anyCommand(m) == m.ok /\ m.cmd # "none"

IsCalibrate_exclusive(m) == m.ok /\ m.cmd = "calibrate" /\ m.fanType = "none"

\* doc.containsKey("command") && doc["command"] == "calibrate"
IsCalibrate(m) == m.ok /\ m.cmd = "calibrate"

FanDuty(m) == constrain(AsInt(m), 0, PwmMax)

LedOn_always(duty) == TRUE

\* if (currentFanSpeed > 0) digitalWrite(PIN_ML_LED, HIGH); else LOW
LedOn(duty) == duty > 0

InPump_late == pc \in {"pump", "task2"}

\* the network pump comes first in loop(): webSocket.loop() runs the handler
InPump == pc = "pump"

OnText_refresh(m, s) ==
  /\ InPump
  /\ wsConnected
  /\ nMsgs < MaxMsgs
  /\ nMsgs' = nMsgs + 1
  /\ rx' = m
  /\ IF HasFan(m)
       THEN /\ currentFanSpeed' = FanDuty(m)
            /\ fanPwm' = FanDuty(m)
            /\ mlLed' = LedOn(FanDuty(m))
       ELSE UNCHANGED actuator
  /\ IF IsCalibrate(m)
       THEN /\ calibrateSensors(s)
            /\ mq135Val' = Max0(s.mq135 - mq135Offset')
            /\ mq8Val' = Max0(s.mq8 - mq8Offset')
            /\ mq9Val' = Max0(s.mq9 - mq9Offset')
            /\ dustVal' = Max0(s.dust - dustOffset')
            /\ UNCHANGED <<temperature, humidity>>
       ELSE UNCHANGED <<lcd, offsets, lastScreenChange, calObs, vals>>
  /\ UNCHANGED <<pc, attempts, now, t0, currentMillis, lastSensorRead,
                 lastWiFiRetry, currentScreen, link, readObs, retryObs,
                 hist>>

\* case WStype_TEXT
OnText(m, s) ==
  /\ InPump
  /\ wsConnected
  /\ nMsgs < MaxMsgs
  /\ nMsgs' = nMsgs + 1
  /\ rx' = m
  /\ IF HasFan(m)
       THEN /\ currentFanSpeed' = FanDuty(m)
            /\ fanPwm' = FanDuty(m)
            /\ mlLed' = LedOn(FanDuty(m))
       ELSE UNCHANGED actuator
  /\ IF IsCalibrate(m)
       THEN calibrateSensors(s)
       ELSE UNCHANGED <<lcd, offsets, lastScreenChange, calObs>>
  /\ UNCHANGED <<pc, attempts, now, t0, currentMillis, lastSensorRead,
                 lastWiFiRetry, vals, currentScreen, link, readObs, retryObs,
                 hist>>

IdentsAfterConnect_none(n) == n

\* case WStype_CONNECTED: one sendTXT of the identification message
IdentsAfterConnect(n) == n + 1

\* case WStype_CONNECTED (the transport reports the connection)
WsOpen ==
  /\ InPump
  /\ wifi /\ ~wsConnected
  /\ wsConnected' = TRUE
  /\ idents' = IdentsAfterConnect(idents)
  /\ UNCHANGED <<nMsgs, pc, attempts, now, t0, currentMillis, timing, vals, offsets,
                 actuator, display, wifi, rx, calObs, readObs, retryObs,
                 fsObs, bootObs, prevReadAt>>

\* case WStype_DISCONNECTED
WsClose ==
  /\ InPump
  /\ wsConnected
  /\ wsConnected' = FALSE
  /\ idents' = 0
  /\ UNCHANGED <<nMsgs, pc, attempts, now, t0, currentMillis, timing, vals, offsets,
                 actuator, display, wifi, rx, calObs, readObs, retryObs,
                 fsObs, bootObs, prevReadAt>>

\* ------------------------------------------------------------------------
\* Environment between two loop() iterations
\* ------------------------------------------------------------------------
Deltas == {5000}

Tick(d) ==
  /\ pc = "pump"
  /\ LET e == Sub32(now, t0) IN e[1] = 0 /\ e[2] + d <= MaxElapsed
  /\ now' = Add32(now, d)
  /\ UNCHANGED <<nMsgs, pc, attempts, t0, currentMillis, timing, vals, offsets,
                 actuator, display, link, rx, calObs, readObs, retryObs,
                 hist>>

WiFiDrop ==
  /\ pc = "pump"
  /\ wifi
  /\ wifi' = FALSE
  /\ UNCHANGED <<nMsgs, pc, attempts, now, t0, currentMillis, timing, vals, offsets,
                 actuator, display, wsConnected, rx, calObs, readObs, retryObs,
                 hist>>

WiFiJoin_reset ==
  /\ pc = "pump"
  /\ ~wifi
  /\ wifi' = TRUE
  /\ currentFanSpeed' = 0 /\ fanPwm' = 0 /\ mlLed' = FALSE
  /\ UNCHANGED <<nMsgs, pc, attempts, now, t0, currentMillis, timing, vals, offsets,
                 display, wsConnected, rx, calObs, readObs, retryObs,
                 hist>>

\* WiFi.status() becomes WL_CONNECTED; no code runs on that transition
WiFiJoin ==
  /\ pc = "pump"
  /\ ~wifi
  /\ wifi' = TRUE
  /\ UNCHANGED <<nMsgs, pc, attempts, now, t0, currentMillis, timing, vals, offsets,
                 actuator, display, wsConnected, rx, calObs, readObs, retryObs,
                 hist>>

\* ------------------------------------------------------------------------
\* loop()
\* ------------------------------------------------------------------------
\* webSocket.loop() has returned; currentMillis = millis()
PumpDone ==
  /\ pc = "pump"
  /\ pc' = "task1"
  /\ currentMillis' = now
  /\ UNCHANGED <<nMsgs, attempts, now, t0, timing, vals, offsets, actuator, display,
                 link, rx, calObs, readObs, retryObs,
                 hist>>

Calibrated_nofloor(raw, off) == raw - off

\* max(0, raw - offset)
Calibrated(raw, off) == Max0(raw - off)

Keep_overwrite(old, new) == new

\* if (!isnan(t)) temperature = t;
Keep(old, new) == IF new # NaN THEN new ELSE old

Transmits_always == TRUE

\* if (webSocket.isConnected()) sendTXT, else only Serial.println
Transmits == wsConnected

readAndSendSensors_afterFailsafe(s) ==
  /\ mq135Val' = Calibrated(s.mq135, mq135Offset)
  /\ mq8Val' = Calibrated(s.mq8, mq8Offset)
  /\ mq9Val' = Calibrated(s.mq9, mq9Offset)
  /\ dustVal' = Calibrated(s.dust, dustOffset)
  /\ temperature' = Keep(temperature, s.t)
  /\ humidity' = Keep(humidity, s.h)
  /\ frame' = Frame(mq135Val', mq8Val', mq9Val', dustVal',
                    temperature', humidity',
                    IF ~wifi THEN (IF mq9Val' > MQ9_FAILSAFE_THRESHOLD
                                     THEN PwmMax ELSE 0)
                             ELSE currentFanSpeed)
  /\ sent' = Transmits
  /\ serialLine' = (IF Transmits THEN "transmitted" ELSE "local")
  /\ rawRead' = s

\* readAndSendSensors(): recompute the values, build the frame, send or log
readAndSendSensors(s) ==
  /\ mq135Val' = Calibrated(s.mq135, mq135Offset)
  /\ mq8Val' = Calibrated(s.mq8, mq8Offset)
  /\ mq9Val' = Calibrated(s.mq9, mq9Offset)
  /\ dustVal' = Calibrated(s.dust, dustOffset)
  /\ temperature' = Keep(temperature, s.t)
  /\ humidity' = Keep(humidity, s.h)
  /\ frame' = Frame(mq135Val', mq8Val', mq9Val', dustVal',
                    temperature', humidity', currentFanSpeed)
  /\ sent' = Transmits
  /\ serialLine' = (IF Transmits THEN "transmitted" ELSE "local")
  /\ rawRead' = s

SensorDue_slow(cm, last) == Due(cm, last, 12 * sensorInterval)

SensorDue_additive(cm, last) ==
  LET d == Add32(last, sensorInterval)
  IN cm[1] > d[1] \/ (cm[1] = d[1] /\ cm[2] >= d[2])

\* currentMillis - lastSensorRead >= sensorInterval
SensorDue(cm, last) == Due(cm, last, sensorInterval)

\* Task 1
SensorTask ==
  /\ pc = "task1"
  /\ pc' = "task2"
  /\ IF SensorDue(currentMillis, lastSensorRead)
       THEN /\ lastSensorRead' = currentMillis
            /\ \E s \in RawSamples : readAndSendSensors(s)
            /\ fsEvals' = 0
       ELSE UNCHANGED <<lastSensorRead, vals, readObs, fsEvals>>
  /\ UNCHANGED <<nMsgs, attempts, now, t0, currentMillis, lastScreenChange,
                 lastWiFiRetry, offsets, actuator, display, link, rx, calObs,
                 retryObs, fsRan, bootObs, idents, prevReadAt>>

\* handleScreenUpdate(): lcd.clear() and the page currentScreen names
Page(n) == IF n = 1 THEN "page1" ELSE "page2"

\* currentMillis - lastScreenChange >= screenInterval
ScreenDue(cm, last) == Due(cm, last, screenInterval)

\* Task 2
ScreenTask ==
  /\ pc = "task2"
  /\ pc' = "task3"
  /\ IF ScreenDue(currentMillis, lastScreenChange)
       THEN /\ lastScreenChange' = currentMillis
            /\ currentScreen' = (IF currentScreen = 1 THEN 2 ELSE 1)
            /\ lcd' = Page(currentScreen')
       ELSE UNCHANGED <<lastScreenChange, display>>
  /\ UNCHANGED <<nMsgs, attempts, now, t0, currentMillis, lastSensorRead,
                 lastWiFiRetry, vals, offsets, actuator, link, rx, calObs,
                 readObs, retryObs,
                 hist>>

Breach_inclusive(v) == v >= MQ9_FAILSAFE_THRESHOLD

\* controlFailSafe(): mq9Val > MQ9_FAILSAFE_THRESHOLD and the duty written
Breach(v) == v > MQ9_FAILSAFE_THRESHOLD

FailsafeDuty_latched(v) ==
  IF Breach(v) \/ currentFanSpeed = PwmMax THEN PwmMax ELSE 0

FailsafeDuty(v) == IF Breach(v) THEN PwmMax ELSE 0

controlFailSafe ==
  /\ currentFanSpeed' = FailsafeDuty(mq9Val)
  /\ fanPwm' = FailsafeDuty(mq9Val)
  /\ mlLed' = Breach(mq9Val)

LinkDown_always == TRUE

LinkDown_protocol == ~wsConnected

\* the condition of Task 3: WiFi.status() != WL_CONNECTED
LinkDown == ~wifi

RetryDue_sensor(cm, last) == Due(cm, last, sensorInterval)

\* currentMillis - lastWiFiRetry >= wifiRetryInterval
RetryDue(cm, last) == Due(cm, last, wifiRetryInterval)

\* Task 3
FailsafeTask ==
  /\ pc = "task3"
  /\ pc' = "end"
  /\ IF LinkDown
       THEN /\ controlFailSafe
            /\ fsRan' = TRUE
            /\ fsEvals' = (IF fsEvals < EvalCap THEN fsEvals + 1 ELSE fsEvals)
            /\ IF RetryDue(currentMillis, lastWiFiRetry)
                 THEN /\ lastWiFiRetry' = currentMillis
                      /\ lcd' = "reconnect"
                      /\ now' = Add32(now, ReconnectDelay)
                      /\ blockedMs' = blockedMs + ReconnectDelay
                      /\ retryAt' = currentMillis
                      /\ UNCHANGED prevRetryAt
                 ELSE UNCHANGED <<lastWiFiRetry, lcd, now, retryObs>>
       ELSE UNCHANGED <<actuator, lastWiFiRetry, lcd, now, retryObs, fsObs>>
  /\ UNCHANGED <<nMsgs, attempts, t0, currentMillis, lastSensorRead,
                 lastScreenChange, vals, offsets, currentScreen, link, rx,
                 calObs, readObs, bootObs, idents, prevReadAt>>

\* loop() returns and is called again
LoopReturn ==
  /\ pc = "end"
  /\ pc' = "pump"
  /\ rx' = NoMsg
  /\ calRaw' = NoSample
  /\ calibAt' = NoTime
  /\ rawRead' = NoSample
  /\ frame' = NoFrame
  /\ sent' = FALSE
  /\ serialLine' = "none"
  /\ blockedMs' = 0
  /\ retryAt' = NoTime
  /\ prevRetryAt' = (IF retryAt # NoTime THEN retryAt ELSE prevRetryAt)
  /\ fsRan' = FALSE
  /\ firstIter' = FALSE
  /\ prevReadAt' = (IF rawRead # NoSample THEN currentMillis ELSE prevReadAt)
  /\ UNCHANGED <<nMsgs, attempts, now, t0, currentMillis, timing, vals, offsets,
                 actuator, display, link, fsEvals, idents, bootLink, bootPolls>>

\* ------------------------------------------------------------------------
\* Specification
\* ------------------------------------------------------------------------
Next ==
  \/ SetupBegin
  \/ SetupPoll
  \/ Associate
  \/ SetupFinish
  \/ \E m \in Payloads, s \in RawSamples : OnText(m, s)
  \/ WsOpen
  \/ WsClose
  \/ \E d \in Deltas : Tick(d)
  \/ WiFiDrop
  \/ WiFiJoin
  \/ PumpDone
  \/ SensorTask
  \/ ScreenTask
  \/ FailsafeTask
  \/ LoopReturn

Spec == Init /\ [][Next]_vars

\* A node that has been up for almost 2^32 ms: booted connected, never lost
\* the link, never had the WebSocket up, no command received; its last
\* iteration, at millis() = T, read the sensors in clean air and showed page 1.
WrapStarts == { <<65535, 58536>> }

InitWrap ==
  \E T \in WrapStarts :
    /\ pc = "pump"
    /\ attempts = 0
    /\ now = T
    /\ t0 = T
    /\ wifi = TRUE
    /\ wsConnected = FALSE
    /\ currentMillis = T
    /\ lastSensorRead = T
    /\ lastScreenChange = T
    /\ lastWiFiRetry = U32(0)
    /\ currentScreen = 1
    /\ mq135Val = 250 /\ mq8Val = 210 /\ mq9Val = 300 /\ dustVal = 190
    /\ temperature = 25 /\ humidity = 60
    /\ mq135Offset = 0 /\ mq8Offset = 0 /\ mq9Offset = 0 /\ dustOffset = 0
    /\ currentFanSpeed = 0
    /\ fanPwm = 0
    /\ mlLed = FALSE
    /\ lcd = "page1"
    /\ nMsgs = 0
    /\ rx = NoMsg
    /\ calRaw = NoSample
    /\ calibAt = NoTime
    /\ rawRead = NoSample
    /\ frame = NoFrame
    /\ sent = FALSE
    /\ serialLine = "none"
    /\ blockedMs = 0
    /\ retryAt = NoTime
    /\ prevRetryAt = NoTime
    /\ fsRan = FALSE
    /\ prevReadAt = T
    /\ fsEvals = 0
    /\ idents = 0
    /\ firstIter = FALSE
    /\ bootLink = "connected"
    /\ bootPolls = 2

\* power-on runs and runs across the wrap of millis()
SpecLong == (Init \/ InitWrap) /\ [][Next]_vars

\* ------------------------------------------------------------------------
\* Properties
\* ------------------------------------------------------------------------

\* C1: when loop() returns from an iteration whose Task 3 saw the link down,
\* the duty is 255 and the alert LED is on if the stored mq9Val is strictly
\* above 3000, and the duty is 0 and the LED off otherwise (3000 itself gives
\* 0), whatever fan_speed command the same iteration applied before.
C1_FailsafeDecides ==
  (pc = "end" /\ ~wifi) =>
    /\ currentFanSpeed = (IF mq9Val > 3000 THEN 255 ELSE 0)
    /\ fanPwm = (IF mq9Val > 3000 THEN 255 ELSE 0)
    /\ mlLed = (mq9Val > 3000)

\* an iteration that applied fan_speed 128 and then ran the failsafe on a breach
C1_Witness ==
  /\ pc = "end" /\ ~wifi
  /\ rx.ok /\ rx.fanType = "int" /\ rx.fan = 128
  /\ mq9Val > 3000
  /\ currentFanSpeed = 255 /\ mlLed

\* C2: while the link is up the failsafe leaves the duty and the alert LED
\* alone: they change only in a Task 3 step that sees the link down, or in
\* the handling of a decoded text message that carries fan_speed.
C2_ConnectedNoOverride ==
  [][ (actuator' # actuator) =>
        \/ (pc = "task3" /\ ~wifi)
        \/ (pc = "pump" /\ nMsgs' = nMsgs + 1 /\ rx'.ok /\ rx'.fanType # "none")
    ]_vars

\* a connected iteration has returned with mq9Val above the threshold, no
\* command, and the fan still off
C2_Witness ==
  /\ pc = "end" /\ wifi
  /\ rx = NoMsg
  /\ rawRead # NoSample
  /\ mq9Val > 3000
  /\ currentFanSpeed = 0 /\ fanPwm = 0 /\ ~mlLed

\* C3: for 2000 ms after calibrateSensors() Task 2 neither toggles the page
\* nor redraws, so the LCD still shows the calibration text when Task 2 of an
\* iteration inside that window is over.
C3_CalibrationHold ==
  (pc = "task3" /\ calibAt # NoTime
     /\ ~Geq32(Sub32(currentMillis, calibAt), 2000)) =>
    lcd = "calibrating"

\* C4: once loop() runs, no step of it waits in delay().
C4_LoopNeverBlocks ==
  (pc \in {"pump", "task1", "task2", "task3", "end"}) => blockedMs = 0

\* C5: right after a decoded text message with an integer fan_speed v was
\* handled, the duty is v clamped to 0..255.
C5_FanClamp ==
  (pc = "pump" /\ rx.ok /\ rx.fanType = "int") =>
    LET v == rx.fan
        c == IF v < 0 THEN 0 ELSE IF v > 255 THEN 255 ELSE v
    IN  currentFanSpeed = c /\ fanPwm = c

\* fan_speed 400 was handled and the duty is 255
C5_Witness ==
  /\ pc = "pump"
  /\ rx.ok /\ rx.fanType = "int" /\ rx.fan = 400
  /\ currentFanSpeed = 255 /\ fanPwm = 255

\* C6: handling a text message that does not decode changes nothing of the
\* device state: duty, alert LED, offsets, calibrated readings, display,
\* task timestamps and the position in the loop.
C6_MalformedDropped ==
  [][ (pc = "pump" /\ nMsgs' = nMsgs + 1 /\ ~rx'.ok) =>
        UNCHANGED <<pc, now, currentMillis, timing, vals, offsets, actuator,
                    display, link, calObs, readObs, retryObs>>
    ]_vars

\* an undecodable text was handled while the fan ran at 255 on page 2
C6_Witness ==
  /\ pc = "pump"
  /\ rx = Msg(FALSE, "int", 400, "calibrate")
  /\ currentFanSpeed = 255 /\ mlLed
  /\ mq9Val > 0
  /\ lcd = "page2"

\* C7: after calibrateSensors() each offset is max(0, raw - 200) for the raw
\* sample it took, hence >= 0; raw {250, 210, 300, 190} gives {50, 10, 100, 0}.
\* No state shows a partly replaced set.
C7_CalibrationOffsets ==
  /\ mq135Offset >= 0 /\ mq8Offset >= 0 /\ mq9Offset >= 0 /\ dustOffset >= 0
  /\ (calRaw # NoSample) =>
       /\ mq135Offset = (IF calRaw.mq135 > 200 THEN calRaw.mq135 - 200 ELSE 0)
       /\ mq8Offset = (IF calRaw.mq8 > 200 THEN calRaw.mq8 - 200 ELSE 0)
       /\ mq9Offset = (IF calRaw.mq9 > 200 THEN calRaw.mq9 - 200 ELSE 0)
       /\ dustOffset = (IF calRaw.dust > 200 THEN calRaw.dust - 200 ELSE 0)
  /\ (calRaw # NoSample /\ calRaw.mq135 = 250 /\ calRaw.mq8 = 210
        /\ calRaw.mq9 = 300 /\ calRaw.dust = 190) =>
       offsets = <<50, 10, 100, 0>>

\* the calibration of the scenario has run
C7_Witness ==
  /\ calRaw = Sample(250, 210, 300, 190, 25, 60)
  /\ offsets = <<50, 10, 100, 0>>

\* C8: after a sensor read each calibrated value is max(0, raw - offset) for
\* the sample and the offsets of that read, and the four calibrated values
\* are >= 0 in every state.
C8_CalibratedFloor ==
  /\ mq135Val >= 0 /\ mq8Val >= 0 /\ mq9Val >= 0 /\ dustVal >= 0
  /\ (rawRead # NoSample) =>
       /\ mq135Val = (IF rawRead.mq135 > mq135Offset
                        THEN rawRead.mq135 - mq135Offset ELSE 0)
       /\ mq8Val = (IF rawRead.mq8 > mq8Offset
                      THEN rawRead.mq8 - mq8Offset ELSE 0)
       /\ mq9Val = (IF rawRead.mq9 > mq9Offset
                      THEN rawRead.mq9 - mq9Offset ELSE 0)
       /\ dustVal = (IF rawRead.dust > dustOffset
                       THEN rawRead.dust - dustOffset ELSE 0)

\* a read whose MQ9 offset exceeds the raw sample
C8_Witness ==
  /\ rawRead # NoSample
  /\ mq9Offset > rawRead.mq9
  /\ mq9Val = 0
  /\ mq135Val > 0

\* C9: a reconnect attempt is made only by an iteration that sees the link
\* down, and it is at least 15000 ms of scheduler time after the attempt
\* before it.
C9_ReconnectSpacing ==
  (retryAt # NoTime) =>
    /\ ~wifi
    /\ (prevRetryAt # NoTime) => Geq32(Sub32(retryAt, prevRetryAt), 15000)

\* a second reconnect attempt has been made
C9_Witness ==
  /\ pc = "end"
  /\ retryAt # NoTime /\ prevRetryAt # NoTime
  /\ lcd = "reconnect"

\* C10: the commands webSocket.loop() delivered in an iteration are applied
\* before its sensor read: the telemetry carries the commanded duty, and the
\* calibrated values in it are computed with the offsets of the calibration.
C10_CommandsBeforeRead ==
  (rawRead # NoSample) =>
    /\ (rx.ok /\ rx.fanType # "none") => frame.fan_speed = FanDuty(rx)
    /\ (calRaw # NoSample) =>
         /\ frame.mq135 = Max0(rawRead.mq135 - Max0(calRaw.mq135 - 200))
         /\ frame.mq8 = Max0(rawRead.mq8 - Max0(calRaw.mq8 - 200))
         /\ frame.mq9 = Max0(rawRead.mq9 - Max0(calRaw.mq9 - 200))
         /\ frame.dust = Max0(rawRead.dust - Max0(calRaw.dust - 200))

\* one message set the fan to 128 and calibrated on MQ9 = 300; the read of
\* the same iteration sampled MQ9 = 3100 and reports 3000 and fan 128
C10_Witness ==
  /\ rawRead # NoSample
  /\ rx = Msg(TRUE, "int", 128, "calibrate")
  /\ calRaw.mq9 = 300 /\ rawRead.mq9 = 3100
  /\ frame.mq9 = 3000
  /\ frame.fan_speed = 128

\* C11 as stated: between two sensor reads controlFailSafe() runs at most
\* once, and never in an iteration that sees the link up.
C11_OncePerCycle ==
  /\ fsEvals <= 1
  /\ fsRan => ~wifi

\* C11 as amended: controlFailSafe() runs in every iteration whose Task 3
\* sees the link down, however many of them fall between two sensor reads,
\* and in no iteration that sees the link up.
C11_EveryDownIteration ==
  /\ fsRan => ~wifi
  /\ (pc = "end") => (fsRan <=> ~wifi)

\* a second evaluation since the latest read, in an iteration without a read
C11_Witness ==
  /\ pc = "end" /\ ~wifi
  /\ rawRead = NoSample
  /\ fsRan /\ fsEvals = 2

\* C12: a sensor read builds exactly one telemetry frame whatever the
\* connection state; the frame goes out iff the WebSocket is connected at
\* that moment and is otherwise only printed locally; an iteration without a
\* read builds and sends nothing (no frame waits for a later transmission).
C12_OneFramePerRead ==
  /\ (rawRead # NoSample) <=> (frame # NoFrame)
  /\ (rawRead # NoSample) =>
       /\ sent <=> wsConnected
       /\ serialLine = (IF wsConnected THEN "transmitted" ELSE "local")
       /\ frame = Frame(mq135Val, mq8Val, mq9Val, dustVal,
                        temperature, humidity, frame.fan_speed)
  /\ (rawRead = NoSample) => (~sent /\ serialLine = "none")

\* a read with the WebSocket down: frame built, printed, not sent
C12_Witness ==
  /\ rawRead # NoSample /\ ~wsConnected
  /\ frame.mq9 = 3500
  /\ ~sent /\ serialLine = "local"

\* C13: the duty is in 0..255 in every state, it is written only by the
\* failsafe (Task 3) and by the handling of a text message, and the
\* fan_speed of every telemetry frame is in 0..255.
C13_DutyRange ==
  /\ [](/\ currentFanSpeed \in 0..255
        /\ fanPwm \in 0..255
        /\ (frame # NoFrame) => (frame.fan_speed \in 0..255))
  /\ [][ (currentFanSpeed' # currentFanSpeed) =>
           (pc = "task3" \/ (pc = "pump" /\ nMsgs' = nMsgs + 1)) ]_vars

\* fan_speed 400 was commanded and the frame of the same iteration reports 255
C13_Witness ==
  /\ rawRead # NoSample
  /\ rx.ok /\ rx.fanType = "int" /\ rx.fan = 400
  /\ frame.fan_speed = 255
  /\ currentFanSpeed = 255

\* C14 as stated: the association loop makes at most 60 polls of 500 ms;
\* setup() then finishes, Connected if the link came up within them and
\* Disconnected (after all 60) otherwise, and after a Disconnected start the
\* first loop() iteration evaluates the failsafe.
C14_StartupBounded ==
  /\ attempts <= 60
  /\ (pc = "assoc" /\ (wifi \/ attempts = 60)) => ENABLED SetupFinish
  /\ (bootLink # "none") =>
       /\ bootPolls \in 0..60
       /\ t0 = U32(5000 + 1000 + 500 * bootPolls + 1500)
  /\ (bootLink = "offline") => bootPolls = 60
  /\ (pc = "end" /\ firstIter /\ bootLink = "offline") => fsRan

\* C14 as amended: the same, but after a Disconnected start the first
\* iteration evaluates the failsafe when its Task 3 still sees the link down
\* (the association begun in setup() may complete before it).
C14_StartupBoundedLinkDown ==
  /\ attempts <= 60
  /\ (pc = "assoc" /\ (wifi \/ attempts = 60)) => ENABLED SetupFinish
  /\ (bootLink # "none") =>
       /\ bootPolls \in 0..60
       /\ t0 = U32(5000 + 1000 + 500 * bootPolls + 1500)
  /\ (bootLink = "offline") => bootPolls = 60
  /\ (pc = "end" /\ firstIter /\ bootLink = "offline") => (fsRan <=> ~wifi)

\* 60 polls without association, and the first iteration ran the failsafe
C14_Witness ==
  /\ pc = "end" /\ firstIter
  /\ bootLink = "offline" /\ bootPolls = 60
  /\ t0 = U32(37500)
  /\ ~wifi /\ fsRan

\* C15: handling a decoded text message that has no fan_speed key and whose
\* command is absent or is not "calibrate" changes nothing: duty, alert LED,
\* offsets, calibrated readings, display and task timestamps stay as they are.
C15_UnknownIsNoOp ==
  [][ (pc = "pump" /\ nMsgs' = nMsgs + 1
         /\ rx'.ok /\ rx'.fanType = "none" /\ rx'.cmd # "calibrate") =>
        UNCHANGED <<pc, now, currentMillis, timing, vals, offsets, actuator,
                    display, link, calObs, readObs, retryObs>>
    ]_vars

\* {"command": "reset"} was handled while the fan ran at 255 on page 2
C15_Witness ==
  /\ pc = "pump"
  /\ rx = Msg(TRUE, "none", 0, "reset")
  /\ currentFanSpeed = 255 /\ mlLed
  /\ offsets = <<0, 0, 0, 0>>
  /\ lcd = "page2"

\* C16: idents counts the identification messages of the current connection.
\* While the connection is up exactly one has been sent, while it is down
\* none; a telemetry frame is transmitted only after that one message; and
\* an identification message is emitted only by the step that establishes
\* the connection.
C16_OneIdentPerConnection ==
  /\ [](/\ wsConnected => idents = 1
        /\ ~wsConnected => idents = 0
        /\ sent => idents = 1)
  /\ [][ (idents' > idents) => (~wsConnected /\ wsConnected' /\ idents' = idents + 1
                                  /\ pc = "pump" /\ ~sent') ]_vars

\* a telemetry frame went out on a connection that was identified once
C16_Witness ==
  /\ pc = "end"
  /\ wsConnected /\ sent /\ frame # NoFrame
  /\ idents = 1

\* C17: in a sensor-read cycle a failed temperature read leaves the stored
\* temperature as it was and a valid one replaces it, the same independently
\* for humidity; in either case the four gas and dust values are recomputed
\* from the new raw samples and the telemetry frame is built from the result.
C17_DhtFaultRetains ==
  [][ (pc = "task1" /\ rawRead' # NoSample) =>
        /\ temperature' = (IF rawRead'.t = NaN THEN temperature ELSE rawRead'.t)
        /\ humidity' = (IF rawRead'.h = NaN THEN humidity ELSE rawRead'.h)
        /\ temperature' # NaN /\ humidity' # NaN
        /\ mq135Val' = Max0(rawRead'.mq135 - mq135Offset)
        /\ mq8Val' = Max0(rawRead'.mq8 - mq8Offset)
        /\ mq9Val' = Max0(rawRead'.mq9 - mq9Offset)
        /\ dustVal' = Max0(rawRead'.dust - dustOffset)
        /\ frame' # NoFrame
        /\ frame'.temperature = temperature' /\ frame'.humidity = humidity'
        /\ frame'.mq9 = mq9Val'
    ]_vars

\* the temperature read failed, the earlier 25 is still stored, and the same
\* cycle updated the gas values and the humidity and built its frame
C17_Witness ==
  /\ rawRead # NoSample /\ rawRead.t = NaN /\ rawRead.h = 60
  /\ temperature = 25 /\ humidity = 60
  /\ mq9Val = 3500 /\ mq8Val = AdcMax
  /\ frame # NoFrame /\ frame.temperature = 25


\* C18: one decoded message that carries both fan_speed and the command
\* "calibrate" has both effects in the step that handles it: the duty becomes
\* the fan_speed clamped to 0..255 with the alert LED on exactly when it is
\* positive, and the four offsets are recomputed from the raw samples taken
\* by the calibration, which also shows the calibration display.
C18_BothEffects ==
  [][ (pc = "pump" /\ nMsgs' = nMsgs + 1
         /\ rx'.ok /\ rx'.fanType # "none" /\ rx'.cmd = "calibrate") =>
        LET v == IF rx'.fanType = "int" THEN rx'.fan ELSE 0
            duty == IF v < 0 THEN 0 ELSE IF v > 255 THEN 255 ELSE v
        IN /\ currentFanSpeed' = duty /\ fanPwm' = duty
           /\ mlLed' = (duty > 0)
           /\ calRaw' # NoSample
           /\ mq135Offset' = Max0(calRaw'.mq135 - 200)
           /\ mq8Offset' = Max0(calRaw'.mq8 - 200)
           /\ mq9Offset' = Max0(calRaw'.mq9 - 200)
           /\ dustOffset' = Max0(calRaw'.dust - 200)
           /\ lcd' = "calibrating"
    ]_vars

\* {"fan_speed": 128, "command": "calibrate"} set the duty to 128 and
\* recalibrated from the samples 250, 210, 300, 190
C18_Witness ==
  /\ pc = "pump"
  /\ rx = Msg(TRUE, "int", 128, "calibrate")
  /\ currentFanSpeed = 128 /\ fanPwm = 128 /\ mlLed
  /\ calRaw # NoSample /\ calRaw.mq135 = 250
  /\ offsets = <<50, 10, 100, 0>>
  /\ lcd = "calibrating"


\* C19: with the clock read as milliseconds on an unbounded line (counted
\* from an epoch before every timestamp of the run, so the 32-bit wrap does
\* not fold it), Task 1 reads the sensors in an iteration exactly when the
\* iteration's timestamp is at least 5000 ms after lastSensorRead, and then
\* stores that timestamp in lastSensorRead, otherwise leaves it; and a read
\* is at least 5000 ms after the read before it, across the wrap as well.
C19_SensorPeriod ==
  /\ [][ (pc = "task1") =>
           LET epoch == IF t0[1] = Limb - 1 THEN <<Limb - 1, 0>> ELSE <<0, 0>>
               line(x) == Sub32(x, epoch)[1] * Limb + Sub32(x, epoch)[2]
               elapsed == line(currentMillis) - line(lastSensorRead)
           IN /\ (rawRead' # NoSample) <=> (elapsed >= 5000)
              /\ lastSensorRead' = (IF elapsed >= 5000 THEN currentMillis
                                                       ELSE lastSensorRead)
       ]_vars
  /\ []( (rawRead # NoSample /\ prevReadAt # NoTime) =>
           LET epoch == IF t0[1] = Limb - 1 THEN <<Limb - 1, 0>> ELSE <<0, 0>>
               line(x) == Sub32(x, epoch)[1] * Limb + Sub32(x, epoch)[2]
           IN line(currentMillis) - line(prevReadAt) >= 5000 )

\* a read before the wrap at 2^32 - 2000 and the next one after it at 3000
C19_Witness ==
  /\ pc = "end"
  /\ rawRead # NoSample
  /\ prevReadAt = <<65535, 63536>>
  /\ currentMillis = <<0, 3000>>
  /\ lastSensorRead = currentMillis


\* C20: in an iteration that read the sensors and whose Task 3 sees the link
\* down, the duty and the alert LED after Task 3 are fixed by that read alone:
\* a calibrated MQ9 above 3000 gives duty 255 with the LED on, one of 3000 or
\* less gives duty 0 with the LED off, whether the duty was 255 or 0 before.
C20_LevelTriggered ==
  [][ (pc = "task3" /\ ~wifi /\ rawRead # NoSample) =>
        LET v == Max0(rawRead.mq9 - mq9Offset)
        IN /\ (v > 3000) =>
                (currentFanSpeed' = 255 /\ fanPwm' = 255 /\ mlLed')
           /\ (v <= 3000) =>
                (currentFanSpeed' = 0 /\ fanPwm' = 0 /\ ~mlLed')
    ]_vars

\* the failsafe had raised the duty to 255 (no command was ever received; the
\* frame of this read still reports 255) and this read of 300 brought it back
\* to 0 with the LED off
C20_Witness ==
  /\ pc = "end" /\ ~wifi
  /\ nMsgs = 0
  /\ rawRead # NoSample /\ rawRead.mq9 = 300
  /\ frame.fan_speed = 255
  /\ mq9Val = 300
  /\ currentFanSpeed = 0 /\ fanPwm = 0 /\ ~mlLed


\* C21: in every state between two steps (after setup, after a failsafe
\* evaluation, after a handled command) the alert LED is on exactly when the
\* duty is above 0, and the PWM output carries the stored duty.
C21_LedIffDuty ==
  /\ mlLed <=> (currentFanSpeed > 0)
  /\ fanPwm = currentFanSpeed

\* {"fan_speed": 256} was handled: duty 255 with the LED on
C21_Witness ==
  /\ pc = "pump"
  /\ rx.ok /\ rx.fanType = "int" /\ rx.fan = 256
  /\ currentFanSpeed = 255 /\ fanPwm = 255 /\ mlLed


\* C22: the step in which WiFi associates again, and every later step taken
\* while it stays associated, leaves the duty, the PWM output and the alert
\* LED as the failsafe last set them, except the handling of a decoded
\* message that carries fan_speed.
C22_LatchedAcrossReassociation ==
  [][ (wifi' /\ ~(pc = "pump" /\ nMsgs' = nMsgs + 1
                    /\ rx'.ok /\ rx'.fanType # "none")) =>
        UNCHANGED <<currentFanSpeed, fanPwm, mlLed>>
    ]_vars

\* the failsafe raised the duty to 255 while offline (no command was ever
\* received); WiFi is associated again, a later read gave a safe 300, and the
\* iteration returned with the duty still 255 and the LED still on
C22_Witness ==
  /\ pc = "end" /\ wifi /\ bootLink = "offline"
  /\ nMsgs = 0
  /\ ~fsRan
  /\ rawRead # NoSample /\ mq9Val = 300
  /\ currentFanSpeed = 255 /\ fanPwm = 255 /\ mlLed


\* C23: while WiFi is associated and the WebSocket connection is down, no
\* iteration evaluates the failsafe and no telemetry frame is transmitted
\* (a frame that is built goes to the serial log only), and every step
\* between two such states leaves the duty, the PWM output and the alert LED
\* unchanged, whatever the calibrated MQ9 value is.
C23_GatedByWiFiOnly ==
  /\ []((wifi /\ ~wsConnected) =>
          /\ ~fsRan
          /\ ~sent
          /\ (frame # NoFrame) => serialLine = "local")
  /\ [][ (wifi /\ ~wsConnected /\ wifi' /\ ~wsConnected') =>
           UNCHANGED <<currentFanSpeed, fanPwm, mlLed>> ]_vars

\* WiFi up, WebSocket down: the iteration read a calibrated MQ9 of 3500, kept
\* the frame local, did not run the failsafe and left the fan off
C23_Witness ==
  /\ pc = "end" /\ wifi /\ ~wsConnected
  /\ rawRead # NoSample /\ mq9Val = 3500
  /\ frame # NoFrame /\ ~sent /\ serialLine = "local"
  /\ ~fsRan
  /\ currentFanSpeed = 0 /\ ~mlLed


\* C24: the step that handles a "calibrate" command rewrites the four
\* offsets and lastScreenChange (and puts the calibration text on the LCD)
\* and leaves the stored readings, the other task timestamps, the page index
\* and, when the message has no fan_speed, the duty and the alert LED as they
\* were; the stored readings change only in a Task 1 step that reads the
\* sensors, so until then the failsafe and the display use the readings
\* computed with the old offsets.
C24_CalibrationFrame ==
  /\ [][ (pc = "pump" /\ nMsgs' = nMsgs + 1 /\ rx'.ok /\ rx'.cmd = "calibrate") =>
           /\ UNCHANGED <<mq135Val, mq8Val, mq9Val, dustVal, temperature, humidity>>
           /\ UNCHANGED <<lastSensorRead, lastWiFiRetry, currentScreen, currentMillis>>
           /\ (rx'.fanType = "none") =>
                UNCHANGED <<currentFanSpeed, fanPwm, mlLed>>
       ]_vars
  /\ [][ (<<mq135Val, mq8Val, mq9Val, dustVal>>' # <<mq135Val, mq8Val, mq9Val, dustVal>>) =>
           (pc = "task1" /\ rawRead' # NoSample) ]_vars

\* link down: a calibration at raw MQ9 3500 moved mq9Offset to 3300, no
\* sensor read followed in the iteration, and the failsafe still decided on
\* the stored 3500 (computed with the old offset 0) and drove the fan at 255
C24_Witness ==
  /\ pc = "end" /\ ~wifi
  /\ rx = Msg(TRUE, "none", 0, "calibrate")
  /\ calRaw # NoSample /\ calRaw.mq9 = 3500
  /\ mq9Offset = 3300
  /\ rawRead = NoSample
  /\ mq9Val = 3500
  /\ fsRan /\ currentFanSpeed = 255 /\ mlLed


\* C25: the frame a sensor read builds carries as fan_speed the duty in
\* effect when Task 1 runs, and the Task 3 step that follows in the same
\* iteration leaves that frame as built; so a duty the failsafe sets is
\* reported by the frame of the next read at the earliest.
C25_FrameBeforeFailsafe ==
  /\ [][ (pc = "task1" /\ rawRead' # NoSample) =>
           /\ frame'.fan_speed = currentFanSpeed
           /\ currentFanSpeed' = currentFanSpeed ]_vars
  /\ [][ (pc = "task3") => (frame' = frame /\ sent' = sent) ]_vars

\* link down: the read of 3500 built a frame reporting fan_speed 0, then the
\* failsafe of the same iteration raised the duty to 255
C25_Witness ==
  /\ pc = "end" /\ ~wifi
  /\ rx = NoMsg
  /\ rawRead # NoSample /\ mq9Val = 3500
  /\ frame.mq9 = 3500 /\ frame.fan_speed = 0
  /\ fsRan /\ currentFanSpeed = 255


\* C26: loop() is first entered more than 5000 ms after power-on with
\* lastSensorRead still 0, so Task 1 of the first iteration reads the
\* sensors, and it has done so when that iteration reaches Task 2, Task 3 or
\* its end; hence whenever the failsafe has run, a sensor read of this or of
\* an earlier iteration produced the mq9Val it decided on, and when the read
\* is of this iteration mq9Val is that read's calibrated value.
C26_FailsafeAfterRealRead ==
  /\ (pc \in {"pump", "task1"} /\ firstIter) =>
        (lastSensorRead = <<0, 0>> /\ prevReadAt = NoTime
         /\ (t0[1] > 0 \/ t0[2] > sensorInterval))
  /\ (pc \in {"task2", "task3", "end"} /\ firstIter) =>
        (rawRead # NoSample /\ lastSensorRead = currentMillis)
  /\ fsRan => (rawRead # NoSample \/ prevReadAt # NoTime)
  /\ (fsRan /\ rawRead # NoSample) => mq9Val = Max0(rawRead.mq9 - mq9Offset)

\* first iteration after an offline start: Task 1 read 3100 and the failsafe
\* then decided on it
C26_Witness ==
  /\ pc = "end" /\ firstIter /\ ~wifi
  /\ prevReadAt = NoTime
  /\ rawRead # NoSample /\ rawRead.mq9 = 3100 /\ mq9Val = 3100
  /\ fsRan /\ currentFanSpeed = 255

====
